---- MODULE Spec2Model ----
(***************************************************************************)
(* State-machine model of beat's input loaders (src/src/inputf.py):        *)
(*   load_SAR_data, load_ascii_gps, load_and_blacklist_GPS and             *)
(*   load_data_traces.  One call of one loader is one behaviour: Init      *)
(* chooses the loader and its arguments (and the content of the data       *)
(* directory), the actions are the statements of the loader.               *)
(*                                                                         *)
(* Files are either present (readable) or absent; a path is modelled by    *)
(* the tuple of the parts the code concatenates.  A file that is present   *)
(* is taken to parse (scipy.io.loadmat, pyrocko io.load succeed on it) and *)
(* to hold the fields the loaders access.  The rows of the station table   *)
(* are well formed and carry distinct station names.  origin, kpos, nreads *)
(* and opened are history variables that record positions and file         *)
(* accesses; they do not influence any step.                               *)
(***************************************************************************)
EXTENDS Integers, Sequences, FiniteSets, TLC

----------------------------------------------------------------------------
(* Bounds of the model                                                     *)
MaxNames    == 3   \* longest scene identifier list
MaxRows     == 3   \* most rows of the station-velocity table
MaxChannels == 2   \* longest channel list
MaxStations == 2   \* longest station list of load_data_traces
ReadCap     == 3   \* saturation of the per-file read counters

(* Input alphabets                                                         *)
Ids          == {"A", "B", "C"}
StationNames == {"S1", "S2", "S3", "S4"}
OtherName    == "S9"
ChannelCodes == {"Z", "T", "X"}
SeisStations == { [network |-> "N1", station |-> "S1"],
                  [network |-> "N2", station |-> "S2"] }
RowChoices   == { <<30, 40, 1500, -2000, 250, 100, 200, 300>>,
                  <<31, 41, 7, 0, -1000, 1, 2, 3>> }

km == 1000

VARIABLES
  fn,           \* the loader that was called
  pc,           \* position in the loader
  err,          \* the exception that left the call, "none" if none
  files,        \* the readable files of the data directory
  \* ---- load_SAR_data
  names0,       \* the identifier list as the caller supplied it
  names,        \* the caller's identifier list (mutated by the loader)
  origin,       \* for each element of names, its position in names0
  it,           \* index of the list iterator of "for k in names"
  k,            \* loop variable
  kpos,         \* position in names0 of the element k was fetched from
  data, covs,   \* results of the two load_matfile calls
  diffgs,       \* result list
  nreads,       \* number of load_matfile calls per (position, prefix)
  \* ---- load_ascii_gps / load_and_blacklist_GPS
  table,        \* rows of the ascii file: [name, d]
  blacklist,
  names_size,   \* names.size
  d_shape0,     \* d.shape[0]
  gi,           \* index of enumerate(names)
  stations,     \* gps_ds.stations: name -> station
  comps,
  tj,           \* index of "for c in comps"
  targets,
  \* ---- load_data_traces
  channels,
  trc_stations,
  ci,           \* index of "for cha in channels"
  ref_channels,
  ri, si,       \* indices of the two nested loops
  opened,       \* the paths open() was called on, in order
  data_trcs

sarVars == <<names0, names, origin, it, k, kpos, data, covs, diffgs, nreads>>
gpsVars == <<table, blacklist, names_size, d_shape0, gi, stations, comps, tj,
             targets>>
trcVars == <<channels, trc_stations, ci, ref_channels, ri, si, opened,
             data_trcs>>
vars == <<fn, pc, err, files, sarVars, gpsVars, trcVars>>

----------------------------------------------------------------------------
(* Helpers                                                                 *)

SeqsUpTo(S, n) == UNION { [1..l -> S] : l \in 0..n }

InjSeqsUpTo(S, n) ==
  { s \in SeqsUpTo(S, n) : \A i, j \in DOMAIN s : i # j => s[i] # s[j] }

Abs(x) == IF x < 0 THEN -x ELSE x

RECURSIVE GCD(_, _)
GCD(a, b) == IF b = 0 THEN a ELSE GCD(b, a % b)

\* x / y for y > 0, as a reduced fraction
Frac(x, y) ==
  LET g == GCD(Abs(x), y) IN [num |-> x \div g, den |-> y \div g]

----------------------------------------------------------------------------
(* load_matfile, load_SAR_data                                             *)

load_matfile(fs, datapath) == IF datapath \in fs THEN "mat" ELSE "None"

quad_path(id) == <<"quad_", id>>
cov_path(id)  == <<"CovMatrix_", id>>

SARFiles == { quad_path(id) : id \in Ids } \cup { cov_path(id) : id \in Ids }

list_iter_next_stuck(i) == i
list_iter_next(i) == i + 1

pop0_none(l) == l
pop0(l) == Tail(l)

both_loaded_either(dt, cv) == dt # "None" \/ cv # "None"
both_loaded(dt, cv) == dt # "None" /\ cv # "None"

CountRead(nr, pos, prefix) ==
  [nr EXCEPT ![<<pos, prefix>>] = IF @ < ReadCap THEN @ + 1 ELSE @]

SARDefaults ==
  /\ names0 = <<>> /\ names = <<>> /\ origin = <<>> /\ it = 0
  /\ k = "" /\ kpos = 0 /\ data = "unset" /\ covs = "unset"
  /\ diffgs = <<>> /\ nreads = <<>>

GPSDefaults ==
  /\ table = <<>> /\ blacklist = {} /\ names_size = 0 /\ d_shape0 = 0
  /\ gi = 0 /\ stations = <<>> /\ comps = <<>> /\ tj = 0 /\ targets = <<>>

TRCDefaults ==
  /\ channels = <<>> /\ trc_stations = <<>> /\ ci = 0 /\ ref_channels = <<>>
  /\ ri = 0 /\ si = 0 /\ opened = <<>> /\ data_trcs = <<>>

InitSAR ==
  /\ fn = "load_SAR_data" /\ pc = "sar_for" /\ err = "none"
  /\ files \in SUBSET SARFiles
  /\ names0 \in SeqsUpTo(Ids, MaxNames)
  /\ names = names0
  /\ origin = [i \in DOMAIN names0 |-> i]
  /\ it = 0 /\ k = "" /\ kpos = 0 /\ data = "unset" /\ covs = "unset"
  /\ diffgs = <<>>
  /\ nreads = [x \in (DOMAIN names0) \X {"quad_", "CovMatrix_"} |-> 0]
  /\ GPSDefaults /\ TRCDefaults

\* for k in names: fetch the next element
SAR_ForNext ==
  /\ pc = "sar_for" /\ it < Len(names)
  /\ k' = names[it + 1]
  /\ kpos' = origin[it + 1]
  /\ it' = list_iter_next(it)
  /\ data' = "unset" /\ covs' = "unset"
  /\ pc' = "sar_data"
  /\ UNCHANGED <<fn, err, files, names0, names, origin, diffgs, nreads,
                 gpsVars, trcVars>>

SAR_LoadData ==
  /\ pc = "sar_data"
  /\ data' = load_matfile(files, quad_path(k))
  /\ nreads' = CountRead(nreads, kpos, "quad_")
  /\ pc' = "sar_covs"
  /\ UNCHANGED <<fn, err, files, names0, names, origin, it, k, kpos, covs,
                 diffgs, gpsVars, trcVars>>

SAR_LoadCovs ==
  /\ pc = "sar_covs"
  /\ covs' = load_matfile(files, cov_path(k))
  /\ nreads' = CountRead(nreads, kpos, "CovMatrix_")
  /\ pc' = "sar_if"
  /\ UNCHANGED <<fn, err, files, names0, names, origin, it, k, kpos, data,
                 diffgs, gpsVars, trcVars>>

\* both files loaded: build the DiffIFG, append it, names.pop(0)
SAR_Append ==
  /\ pc = "sar_if" /\ both_loaded(data, covs)
  /\ diffgs' = Append(diffgs, [name |-> k, pos |-> kpos])
  /\ names' = pop0(names)
  /\ origin' = pop0(origin)
  /\ pc' = "sar_for"
  /\ UNCHANGED <<fn, err, files, names0, it, k, kpos, data, covs, nreads,
                 gpsVars, trcVars>>

\* else: logger.info(...)
SAR_Skip ==
  /\ pc = "sar_if" /\ ~both_loaded(data, covs)
  /\ pc' = "sar_for"
  /\ UNCHANGED <<fn, err, files, sarVars, gpsVars, trcVars>>

\* the iterator is exhausted: return diffgs
SAR_Return ==
  /\ pc = "sar_for" /\ it >= Len(names)
  /\ pc' = "done"
  /\ UNCHANGED <<fn, err, files, sarVars, gpsVars, trcVars>>

----------------------------------------------------------------------------
(* load_ascii_gps, load_and_blacklist_GPS                                  *)

NumCols == 8   \* numeric columns read by usecols=range(1, 9)

\* num.loadtxt(filepath, usecols=0, dtype='string').size: loadtxt squeezes
\* its result, a single row gives a 0-d array, whose size is 1
loadtxt_names_size(t) == Len(t)

\* num.loadtxt(filepath, usecols=range(1, 9)).shape[0]: loadtxt squeezes
\* its result, a single row gives a 1-d array of the 8 columns
loadtxt_d_shape0(t) == IF Len(t) = 1 THEN NumCols ELSE Len(t)

size_differs_gt(a, b) == a > b
size_differs(a, b) == a # b

\* heart.GPSComponent(name=comp, v=..., twosigma=...) for j, comp in 'ENU'
\* (d[i, j + 2] is column j + 3 of the 1-based tuple)
ENU == <<"E", "N", "U">>

gps_component(d, j) ==
  [name |-> ENU[j + 1], v |-> Frac(d[j + 3], km),
   twosigma |-> Frac(d[j + 6], km)]

\* GPSStation.add_component: components are kept in insertion order
add_component(st, c) == [st EXCEPT !.components = Append(@, c)]

gps_station(row) ==
  LET st0 == [name |-> row.name, lon |-> row.d[1], lat |-> row.d[2],
              components |-> <<>>]
  IN add_component(add_component(add_component(st0,
       gps_component(row.d, 0)), gps_component(row.d, 1)),
       gps_component(row.d, 2))

\* GPSDataset.add_station: mapping of station name -> station
add_station(ds, st) ==
  [n \in DOMAIN ds \cup {st.name} |-> IF n = st.name THEN st ELSE ds[n]]

\* GPSDataset.remove_stations: a name not present is a no-op
remove_stations(ds, bl) == [n \in DOMAIN ds \ bl |-> ds[n]]

\* GPSStation.get_component_names
get_component_names(st) ==
  [i \in DOMAIN st.components |-> st.components[i].name]

\* GPSDataset.get_compound: the cross-station collection of the components
\* of one name
get_compound(ds, c) ==
  [component |-> c,
   stations  |-> { n \in DOMAIN ds :
                     \E i \in DOMAIN ds[n].components :
                        ds[n].components[i].name = c }]

Tables ==
  { [i \in DOMAIN ns |-> [name |-> ns[i], d |-> ds[i]]] :
      <<ns, ds>> \in { p \in InjSeqsUpTo(StationNames, MaxRows)
                             \X SeqsUpTo(RowChoices, MaxRows) :
                         Len(p[1]) = Len(p[2]) } }

InitGPS ==
  /\ fn \in {"load_ascii_gps", "load_and_blacklist_GPS"}
  /\ pc = "gps_loadtxt" /\ err = "none" /\ files = {}
  /\ table \in Tables
  /\ blacklist \in IF fn = "load_ascii_gps" THEN {{}}
                   ELSE SUBSET (StationNames \cup {OtherName})
  /\ names_size = 0 /\ d_shape0 = 0 /\ gi = 0 /\ stations = <<>>
  /\ comps = <<>> /\ tj = 0 /\ targets = <<>>
  /\ SARDefaults /\ TRCDefaults

\* the two loadtxt calls and the row-count check
GPS_LoadTxt ==
  /\ pc = "gps_loadtxt"
  /\ names_size' = loadtxt_names_size(table)
  /\ d_shape0' = loadtxt_d_shape0(table)
  /\ IF size_differs(names_size', d_shape0')
       THEN pc' = "raised" /\ err' = "RowCountMismatch"
       ELSE pc' = "gps_for" /\ err' = err
  /\ UNCHANGED <<fn, files, table, blacklist, gi, stations, comps, tj,
                 targets, sarVars, trcVars>>

\* one iteration of "for i, name in enumerate(names)"
GPS_AddStation ==
  /\ pc = "gps_for" /\ gi < Len(table)
  /\ stations' = add_station(stations, gps_station(table[gi + 1]))
  /\ gi' = gi + 1
  /\ UNCHANGED <<fn, pc, err, files, table, blacklist, names_size, d_shape0,
                 comps, tj, targets, sarVars, trcVars>>

\* return data
GPS_Return ==
  /\ pc = "gps_for" /\ gi >= Len(table)
  /\ pc' = IF fn = "load_ascii_gps" THEN "done" ELSE "bl_remove"
  /\ UNCHANGED <<fn, err, files, gpsVars, sarVars, trcVars>>

\* gps_ds.remove_stations(blacklist)
BL_Remove ==
  /\ pc = "bl_remove"
  /\ stations' = remove_stations(stations, blacklist)
  /\ pc' = "bl_comps"
  /\ UNCHANGED <<fn, err, files, table, blacklist, names_size, d_shape0, gi,
                 comps, tj, targets, sarVars, trcVars>>

\* comps = gps_ds.stations.values()[0].get_component_names(): indexing the
\* empty list raises, otherwise the first value of the dict is any station
BL_Comps_no_check ==
  /\ pc = "bl_comps"
  /\ IF DOMAIN stations = {}
       THEN comps' = <<>>
       ELSE \E n \in DOMAIN stations :
               comps' = get_component_names(stations[n])
  /\ pc' = "bl_targets"
  /\ UNCHANGED <<fn, err, files, table, blacklist, names_size, d_shape0, gi,
                 stations, tj, targets, sarVars, trcVars>>
BL_Comps ==
  /\ pc = "bl_comps"
  /\ IF DOMAIN stations = {}
       THEN /\ pc' = "raised" /\ err' = "IndexError"
            /\ comps' = comps
       ELSE /\ \E n \in DOMAIN stations :
                  comps' = get_component_names(stations[n])
            /\ pc' = "bl_targets" /\ err' = err
  /\ UNCHANGED <<fn, files, table, blacklist, names_size, d_shape0, gi,
                 stations, tj, targets, sarVars, trcVars>>

\* one iteration of "for c in comps"
BL_AppendTarget ==
  /\ pc = "bl_targets" /\ tj < Len(comps)
  /\ targets' = Append(targets, get_compound(stations, comps[tj + 1]))
  /\ tj' = tj + 1
  /\ UNCHANGED <<fn, pc, err, files, table, blacklist, names_size, d_shape0,
                 gi, stations, comps, sarVars, trcVars>>

\* return targets
BL_Return ==
  /\ pc = "bl_targets" /\ tj >= Len(comps)
  /\ pc' = "done"
  /\ UNCHANGED <<fn, err, files, gpsVars, sarVars, trcVars>>

----------------------------------------------------------------------------
(* load_data_traces                                                        *)

ref_channel_of_swapped(cha) ==
  IF cha = "Z" THEN "r" ELSE IF cha = "T" THEN "u" ELSE "unsupported"
ref_channel_of(cha) ==
  IF cha = "Z" THEN "u" ELSE IF cha = "T" THEN "r" ELSE "unsupported"

\* trc_name_divider.join(('reference', network, station, ref_channel))
trace_name(station, ref_channel) ==
  <<"reference", station.network, station.station, ref_channel>>

\* datadir + trace_name + '.' + data_format
tracepath(station, ref_channel) == <<trace_name(station, ref_channel), "mseed">>

TraceFiles ==
  { tracepath(st, rc) : st \in SeisStations, rc \in {"u", "r"} }

InitTraces ==
  /\ fn = "load_data_traces" /\ pc = "tr_map" /\ err = "none"
  /\ files \in SUBSET TraceFiles
  /\ channels \in SeqsUpTo(ChannelCodes, MaxChannels)
  /\ trc_stations \in SeqsUpTo(SeisStations, MaxStations)
  /\ ci = 0 /\ ref_channels = <<>> /\ ri = 0 /\ si = 0
  /\ opened = <<>> /\ data_trcs = <<>>
  /\ SARDefaults /\ GPSDefaults

\* one iteration of "for cha in channels"
TR_MapChannel_skip ==
  /\ pc = "tr_map" /\ ci < Len(channels)
  /\ ref_channels' = IF ref_channel_of(channels[ci + 1]) = "unsupported"
                       THEN ref_channels
                       ELSE Append(ref_channels,
                                   ref_channel_of(channels[ci + 1]))
  /\ ci' = ci + 1
  /\ UNCHANGED <<fn, pc, err, files, channels, trc_stations, ri, si, opened,
                 data_trcs, sarVars, gpsVars>>
TR_MapChannel ==
  /\ pc = "tr_map" /\ ci < Len(channels)
  /\ IF ref_channel_of(channels[ci + 1]) = "unsupported"
       THEN /\ pc' = "raised" /\ err' = "UnsupportedChannel"
            /\ UNCHANGED <<ref_channels, ci>>
       ELSE /\ ref_channels' = Append(ref_channels,
                                      ref_channel_of(channels[ci + 1]))
            /\ ci' = ci + 1
            /\ UNCHANGED <<pc, err>>
  /\ UNCHANGED <<fn, files, channels, trc_stations, ri, si, opened,
                 data_trcs, sarVars, gpsVars>>

\* all channels mapped: data_trcs = []
TR_MapDone ==
  /\ pc = "tr_map" /\ ci >= Len(channels)
  /\ pc' = "tr_for"
  /\ UNCHANGED <<fn, err, files, trcVars, sarVars, gpsVars>>

\* body of the inner loop: open the file, load and append the trace, or
\* warn on IOError
TR_Open ==
  /\ pc = "tr_for" /\ ri < Len(ref_channels) /\ si < Len(trc_stations)
  /\ LET path == tracepath(trc_stations[si + 1], ref_channels[ri + 1]) IN
       /\ opened' = Append(opened, path)
       /\ data_trcs' = IF path \in files
                         THEN Append(data_trcs, [tracepath |-> path])
                         ELSE data_trcs
  /\ si' = si + 1
  /\ UNCHANGED <<fn, pc, err, files, channels, trc_stations, ci, ref_channels,
                 ri, sarVars, gpsVars>>

\* the inner loop is exhausted: next ref_channel
TR_NextChannel ==
  /\ pc = "tr_for" /\ ri < Len(ref_channels) /\ si >= Len(trc_stations)
  /\ ri' = ri + 1 /\ si' = 0
  /\ UNCHANGED <<fn, pc, err, files, channels, trc_stations, ci, ref_channels,
                 opened, data_trcs, sarVars, gpsVars>>

\* return data_trcs
TR_Return ==
  /\ pc = "tr_for" /\ ri >= Len(ref_channels)
  /\ pc' = "done"
  /\ UNCHANGED <<fn, err, files, trcVars, sarVars, gpsVars>>

----------------------------------------------------------------------------
Init == InitSAR \/ InitGPS \/ InitTraces

Next ==
  \/ SAR_ForNext \/ SAR_LoadData \/ SAR_LoadCovs \/ SAR_Append \/ SAR_Skip
  \/ SAR_Return
  \/ GPS_LoadTxt \/ GPS_AddStation \/ GPS_Return
  \/ BL_Remove \/ BL_Comps \/ BL_AppendTarget \/ BL_Return
  \/ TR_MapChannel \/ TR_MapDone \/ TR_Open \/ TR_NextChannel \/ TR_Return

Spec == Init /\ [][Next]_vars

FairSpec == Spec /\ WF_vars(Next)

----------------------------------------------------------------------------
(* Properties                                                              *)

SAR == fn = "load_SAR_data"
GPS == fn \in {"load_ascii_gps", "load_and_blacklist_GPS"}
TRC == fn = "load_data_traces"

BothReadable(id) == quad_path(id) \in files /\ cov_path(id) \in files

RecordNames(ds) == [i \in DOMAIN ds |-> ds[i].name]

Attempted(pos) ==
  nreads[<<pos, "quad_">>] >= 1 /\ nreads[<<pos, "CovMatrix_">>] >= 1

RECURSIVE IsSubseq(_, _)
IsSubseq(s, t) ==
  IF s = <<>> THEN TRUE
  ELSE IF t = <<>> THEN FALSE
  ELSE IF Head(s) = Head(t) THEN IsSubseq(Tail(s), Tail(t))
  ELSE IsSubseq(s, Tail(t))

\* C1: when load_SAR_data returns, the result holds exactly one record for
\* each identifier of the input list whose two companion files are both
\* readable, in input order.
C1_OneRecordPerReadableId ==
  (SAR /\ pc = "done") =>
     RecordNames(diffgs) = SelectSeq(names0, BothReadable)

\* C2: when load_SAR_data returns, every identifier that follows an
\* identifier with a missing companion file was attempted (both of its
\* companion files were read).
C2_LaterIdsAttempted ==
  (SAR /\ pc = "done") =>
     \A p, q \in DOMAIN names0 :
        (p < q /\ ~BothReadable(names0[p])) => Attempted(q)

\* C8: the caller's list is always the original list with as many leading
\* elements removed as records were appended (so it is unchanged while no
\* identifier loaded), whichever identifiers were loaded.
C8_PopsFirstPerRecord ==
  SAR => names = SubSeq(names0, Len(diffgs) + 1, Len(names0))

C8_Witness ==
  /\ SAR /\ pc = "done" /\ Len(diffgs) >= 2
  /\ diffgs[2].pos # 2
  /\ names = SubSeq(names0, 3, Len(names0))

\* C9: in every state, each record of the result carries an identifier of
\* the input list whose two companion files were both read and are both
\* readable, the records come from strictly increasing positions of the
\* input list, and their names form a subsequence of the input list.
C9_RecordsFromLoadedIds ==
  SAR =>
    /\ \A i \in DOMAIN diffgs :
          /\ diffgs[i].pos \in DOMAIN names0
          /\ names0[diffgs[i].pos] = diffgs[i].name
          /\ BothReadable(diffgs[i].name)
          /\ Attempted(diffgs[i].pos)
    /\ \A i, j \in DOMAIN diffgs : i < j => diffgs[i].pos < diffgs[j].pos
    /\ IsSubseq(RecordNames(diffgs), names0)

C9_Witness ==
  /\ SAR /\ pc = "done" /\ Len(diffgs) >= 1
  /\ \E p \in DOMAIN names0 :
        /\ Attempted(p)
        /\ quad_path(names0[p]) \in files
        /\ cov_path(names0[p]) \notin files

\* C10: load_SAR_data returns, and no companion file of a position of the
\* input list is read more than once.
ReadsAtMostOnce == SAR => \A x \in DOMAIN nreads : nreads[x] <= 1

C10_TerminatesBoundedReads ==
  /\ []ReadsAtMostOnce
  /\ <>(SAR => pc = "done")

C10_Witness ==
  /\ SAR /\ pc = "done" /\ Len(names0) >= 2
  /\ Len(names) < Len(names0)
  /\ \E p \in DOMAIN names0 : Attempted(p) /\ p > 1

\* C3: a channel list with a code other than Z and T never gets past the
\* channel mapping: no file is opened, no trace is loaded, and the only way
\* the call ends is the unsupported-channel error.
HasUnsupported == \E i \in DOMAIN channels : channels[i] \notin {"Z", "T"}

C3_UnsupportedBeforeIO ==
  (TRC /\ HasUnsupported) =>
     /\ opened = <<>> /\ data_trcs = <<>>
     /\ pc \in {"tr_map", "raised"}
     /\ pc = "raised" => err = "UnsupportedChannel"

C3_Witness ==
  /\ TRC /\ pc = "raised" /\ err = "UnsupportedChannel"
  /\ Len(channels) = 2 /\ channels[1] = "Z" /\ channels[2] = "X"
  /\ trc_stations # <<>> /\ files # {}

\* C4: when load_data_traces returns, open() was attempted on the file of
\* every (channel, station) pair in channel-major, station-minor order with
\* Z mapped to u and T to r, and the result holds the traces of exactly the
\* pairs whose file is present, in that order.
ClaimedChannel(cha) == IF cha = "Z" THEN "u" ELSE "r"

PairPaths ==
  LET ns == Len(trc_stations)
      nc == Len(channels)
  IN [n \in 1..(nc * ns) |->
        <<<<"reference", trc_stations[((n - 1) % ns) + 1].network,
            trc_stations[((n - 1) % ns) + 1].station,
            ClaimedChannel(channels[((n - 1) \div ns) + 1])>>, "mseed">>]

Present(path) == path \in files

C4_TracesChannelMajor ==
  (TRC /\ pc = "done") =>
     /\ opened = PairPaths
     /\ data_trcs = [i \in DOMAIN SelectSeq(PairPaths, Present) |->
                       [tracepath |-> SelectSeq(PairPaths, Present)[i]]]

C4_Witness ==
  /\ TRC /\ pc = "done"
  /\ Len(channels) = 2 /\ channels[1] = "T" /\ channels[2] = "Z"
  /\ Len(trc_stations) = 2 /\ trc_stations[1] # trc_stations[2]
  /\ Len(opened) = 4 /\ opened[1] \notin files /\ opened[4] \in files
  /\ Len(data_trcs) = 2

\* C5: for every table of R >= 1 rows, load_ascii_gps returns a dataset of
\* exactly R stations, each with the components E, N, U in that order,
\* component j taking its velocity from numeric column j+2 and its
\* uncertainty from numeric column j+5 of its row, divided by 1000.
ClaimedComponents(d) ==
  [j \in 1..3 |-> [name |-> ENU[j], v |-> Frac(d[j + 2], 1000),
                   twosigma |-> Frac(d[j + 5], 1000)]]

C5_AllRowsLoaded ==
  (fn = "load_ascii_gps" /\ Len(table) >= 1 /\ pc \in {"done", "raised"}) =>
     /\ pc = "done"
     /\ Cardinality(DOMAIN stations) = Len(table)
     /\ \A i \in DOMAIN table :
           /\ table[i].name \in DOMAIN stations
           /\ stations[table[i].name].components =
                 ClaimedComponents(table[i].d)

\* C6: when the table was loaded, load_and_blacklist_GPS with blacklist B
\* returns one compound target per component E, N, U over exactly the
\* loaded stations not in B, and fails with an error, returning no targets,
\* when B holds every loaded station.
TableStations == { table[i].name : i \in DOMAIN table }

C6_BlacklistTargets ==
  (fn = "load_and_blacklist_GPS" /\ pc \in {"done", "raised"}
     /\ err # "RowCountMismatch") =>
     IF TableStations \ blacklist = {}
       THEN pc = "raised" /\ err = "IndexError" /\ targets = <<>>
       ELSE /\ pc = "done" /\ err = "none"
            /\ Len(targets) = 3
            /\ \A j \in 1..3 :
                  /\ targets[j].component = ENU[j]
                  /\ targets[j].stations = TableStations \ blacklist

C6_Witness ==
  /\ fn = "load_and_blacklist_GPS" /\ pc = "raised" /\ err = "IndexError"
  /\ Len(table) >= 2
  /\ OtherName \in blacklist /\ TableStations \subseteq blacklist

\* C7: once the two loadtxt results differ in their number of rows, the
\* call has failed with the row-count mismatch error and no station was
\* constructed or added (and no target built).
C7_MismatchBeforeStations ==
  (GPS /\ pc # "gps_loadtxt" /\ names_size # d_shape0) =>
     /\ pc = "raised" /\ err = "RowCountMismatch"
     /\ DOMAIN stations = {} /\ gi = 0 /\ targets = <<>>

C7_Witness ==
  /\ GPS /\ pc = "raised" /\ err = "RowCountMismatch"
  /\ names_size # d_shape0 /\ DOMAIN stations = {}
====
